---- MODULE Spec2Model ----
(***************************************************************************)
(* Model of src/git.go (junit2otlp): one pass of GitScm.contributeAttributes *)
(* over a local git repository.  The repository (commit DAG, timestamps,    *)
(* identities, trees, remote configuration), the CI environment variables   *)
(* and the set of go-git calls that return an error are the inputs of a     *)
(* pass; they are chosen in Init and never change.                          *)
(***************************************************************************)
EXTENDS Integers, Sequences, FiniteSets, TLC

VARIABLES repo, env, faults, pc, headSha, targetBranchEnv, gitProvider,
          gitAttributes, headCommit, targetCommit, outcome, walk, returned

vars == <<repo, env, faults, pc, headSha, targetBranchEnv, gitProvider,
          gitAttributes, headCommit, targetCommit, outcome, walk, returned>>

inputs == <<repo, env, faults>>

(***************************************************************************)
(* Bounds of the model.                                                    *)
(***************************************************************************)
MaxCommits == 3
MaxFaults == 2
MaxTime == 2

(***************************************************************************)
(* Attribute keys (constants of the package, used at git.go:91-218).        *)
(***************************************************************************)
ScmType == "scm-type"
ScmProvider == "scm-provider"
ScmRepository == "scm-repository"
ScmBranch == "scm-branch"
ScmAuthors == "scm-authors"
ScmCommitters == "scm-committers"
GitAdditions == "git-additions"
GitDeletions == "git-deletions"
GitModifiedFiles == "git-modified-files"

Nil == "nil"
NoCommit == 0
NoSha == 0

KV(k, v) == [key |-> k, val |-> v]

(***************************************************************************)
(* Error values.  errors.Wrapf returns nil when the wrapped error is nil.   *)
(***************************************************************************)
Wrapf(err, msg) == IF err = Nil THEN Nil ELSE msg

(***************************************************************************)
(* Sequences helpers.                                                      *)
(***************************************************************************)
Range(s) == {s[i] : i \in DOMAIN s}

IsPrefix(s, t) == Len(s) <= Len(t) /\ SubSeq(t, 1, Len(s)) = s

NoDup(s) == \A i, j \in DOMAIN s : s[i] = s[j] => i = j

Orderings(S) == {s \in [1..Cardinality(S) -> S] : Range(s) = S}

RECURSIVE SetToSeq(_)
SetToSeq(S) ==
    IF S = {} THEN <<>>
    ELSE LET m == CHOOSE x \in S : \A y \in S : x <= y
         IN <<m>> \o SetToSeq(S \ {m})

(***************************************************************************)
(* The commit graph.  A commit is identified by its hash, a number in       *)
(* 1..r.n; r.parents[c] is the ordered ParentHashes list.                   *)
(***************************************************************************)
Commits(r) == 1..r.n

BogusSha(r) == r.n + 1

RECURSIVE Ancestors(_, _)
Ancestors(r, S) ==
    LET next == S \cup UNION {Range(r.parents[c]) : c \in S}
    IN IF next = S THEN S ELSE Ancestors(r, next)

Reach(r, c) == Ancestors(r, {c})

(***************************************************************************)
(* object.NewCommitPreorderIter: depth-first walk with a seen map; each     *)
(* stack entry is the iterator over the not-yet-seen parents of a commit.   *)
(***************************************************************************)
RECURSIVE PreorderIter(_, _, _, _)
PreorderIter(r, stack, seen, out) ==
    IF stack = <<>> THEN out
    ELSE LET n == Len(stack)
             top == stack[n]
         IN IF top = <<>>
            THEN PreorderIter(r, SubSeq(stack, 1, n - 1), seen, out)
            ELSE LET c == Head(top)
                     stack1 == [stack EXCEPT ![n] = Tail(top)]
                 IN IF c \in seen
                    THEN PreorderIter(r, stack1, seen, out)
                    ELSE LET seen1 == seen \cup {c}
                             NotSeen(h) == h \notin seen1
                             stack2 == IF Len(r.parents[c]) > 0
                                       THEN Append(stack1, SelectSeq(r.parents[c], NotSeen))
                                       ELSE stack1
                         IN PreorderIter(r, stack2, seen1, Append(out, c))

(* Mutation of LimitIter: keeps only the commits strictly after the limit. *)
LimitIterStrict(r, source, since) ==
    LET After(c) == r.cWhen[c] > since
    IN SelectSeq(source, After)

(***************************************************************************)
(* object.commitLimitIter: the Since option skips (does not stop at) every  *)
(* commit whose committer time is before the limit.                         *)
(***************************************************************************)
LimitIter(r, source, since) ==
    LET NotBefore(c) == ~(r.cWhen[c] < since)
    IN SelectSeq(source, NotBefore)

(***************************************************************************)
(* Repository.Log(From, Since) with the default order.                      *)
(***************************************************************************)
Log(r, from, since) == LimitIter(r, PreorderIter(r, <<(<<from>>)>>, {}, <<>>), since)

(***************************************************************************)
(* object.NewFilterCommitIter: breadth-first walk from a commit that does   *)
(* not expand commits in limit and yields the commits in valid.             *)
(***************************************************************************)
RECURSIVE FilterIter(_, _, _, _, _, _)
FilterIter(r, queue, visited, valid, limit, out) ==
    IF queue = <<>> THEN out
    ELSE LET c == Head(queue)
             q1 == Tail(queue)
         IN IF c \in visited
            THEN FilterIter(r, q1, visited, valid, limit, out)
            ELSE LET visited1 == visited \cup {c}
                     NotVisited(h) == h \notin visited1
                     q2 == IF c \in limit THEN q1
                           ELSE q1 \o SelectSeq(r.parents[c], NotVisited)
                     out1 == IF c \in valid THEN Append(out, c) ELSE out
                 IN FilterIter(r, q2, visited1, valid, limit, out1)

(***************************************************************************)
(* sortByCommitDateDesc: sort.Slice (insertion sort for short slices) with  *)
(* less(i, j) = commits[i].Committer.When.After(commits[j].Committer.When). *)
(***************************************************************************)
RECURSIVE InsertByDate(_, _, _)
InsertByDate(r, sorted, c) ==
    IF sorted = <<>> THEN <<c>>
    ELSE LET last == sorted[Len(sorted)]
         IN IF r.cWhen[c] > r.cWhen[last]
            THEN Append(InsertByDate(r, SubSeq(sorted, 1, Len(sorted) - 1), c), last)
            ELSE Append(sorted, c)

RECURSIVE SortByCommitDateDesc(_, _)
SortByCommitDateDesc(r, s) ==
    IF s = <<>> THEN <<>>
    ELSE InsertByDate(r, SortByCommitDateDesc(r, SubSeq(s, 1, Len(s) - 1)), s[Len(s)])

Remove(s, c) == LET Keep(x) == x # c IN SelectSeq(s, Keep)

IndexOf(s, c) == IF c \in Range(s) THEN CHOOSE i \in DOMAIN s : s[i] = c ELSE 0

(***************************************************************************)
(* object.Independents: drops every candidate that is reachable from        *)
(* another candidate.  IndepEach is the ForEach callback folded over the    *)
(* history of from; IndepLoop is the outer loop over the candidates.        *)
(***************************************************************************)
RECURSIVE IndepEach(_, _, _, _, _)
IndepEach(hist, i, from, candidates, seen) ==
    IF i > Len(hist) THEN [candidates |-> candidates, seen |-> seen]
    ELSE LET fa == hist[i]
             cand1 == IF fa # from THEN Remove(candidates, fa) ELSE candidates
         IN IF Len(cand1) = 1
            THEN [candidates |-> cand1, seen |-> seen]
            ELSE IndepEach(hist, i + 1, from, cand1, seen \cup {fa})

RECURSIVE IndepLoop(_, _, _, _)
IndepLoop(r, candidates, seen, pos) ==
    LET from == candidates[pos]
        hist == FilterIter(r, <<from>>, {}, Commits(r), seen, <<>>)
        st == IndepEach(hist, 1, from, candidates, seen)
        nextPos == IndexOf(st.candidates, from) + 1
    IN IF nextPos > Len(st.candidates)
       THEN st.candidates
       ELSE IndepLoop(r, st.candidates, st.seen, nextPos)

Independents(r, commits) ==
    LET candidates == SortByCommitDateDesc(r, commits)
    IN IF Len(candidates) < 2 THEN candidates
       ELSE IndepLoop(r, candidates, {}, 1)

(* Mutation of MergeBase: answers the newer commit when the older one is     *)
(* reachable from it.                                                      *)
MergeBaseNewer(r, c, other) ==
    LET sorted == SortByCommitDateDesc(r, <<c, other>>)
        newer == sorted[1]
        older == sorted[2]
        newerHistory == Reach(r, newer)
    IN IF older \in newerHistory
       THEN <<newer>>
       ELSE Independents(r, FilterIter(r, <<older>>, {}, newerHistory, newerHistory, <<>>))

(***************************************************************************)
(* object.Commit.MergeBase: the best common ancestors of c and other.       *)
(***************************************************************************)
MergeBase(r, c, other) ==
    LET sorted == SortByCommitDateDesc(r, <<c, other>>)
        newer == sorted[1]
        older == sorted[2]
        newerHistory == Reach(r, newer)
    IN IF older \in newerHistory
       THEN <<older>>
       ELSE Independents(r, FilterIter(r, <<older>>, {}, newerHistory, newerHistory, <<>>))

(***************************************************************************)
(* Trees and patches.  A tree maps file names to their lines; Tree.Patch    *)
(* goes from the receiver to the argument, and Patch.Stats counts, per      *)
(* changed file, the lines the line diff adds and deletes.                  *)
(***************************************************************************)
FileOrder == <<"a.txt", "b.txt">>

RECURSIVE LCS(_, _)
LCS(a, b) ==
    IF a = <<>> \/ b = <<>> THEN 0
    ELSE IF Head(a) = Head(b) THEN 1 + LCS(Tail(a), Tail(b))
    ELSE LET x == LCS(Tail(a), b)
             y == LCS(a, Tail(b))
         IN IF x >= y THEN x ELSE y

Content(tree, f) == IF f \in DOMAIN tree THEN tree[f] ELSE <<>>

Changed(from, to, f) ==
    \/ (f \in DOMAIN from) # (f \in DOMAIN to)
    \/ f \in DOMAIN from /\ f \in DOMAIN to /\ from[f] # to[f]

FileStat(from, to, f) ==
    LET common == LCS(Content(from, f), Content(to, f))
    IN [Name |-> f,
        Addition |-> Len(Content(to, f)) - common,
        Deletion |-> Len(Content(from, f)) - common]

PatchStats(from, to) ==
    LET IsChanged(f) == Changed(from, to, f)
        names == SelectSeq(FileOrder, IsChanged)
    IN [i \in DOMAIN names |-> FileStat(from, to, names[i])]


RECURSIVE SumAddition(_, _)
SumAddition(stats, i) ==
    IF i > Len(stats) THEN 0 ELSE stats[i].Addition + SumAddition(stats, i + 1)

RECURSIVE SumDeletion(_, _)
SumDeletion(stats, i) ==
    IF i > Len(stats) THEN 0 ELSE stats[i].Deletion + SumDeletion(stats, i + 1)

ChangedFiles(stats) == [i \in DOMAIN stats |-> stats[i].Name]

(***************************************************************************)
(* calculateCommits (git.go:21-55).                                        *)
(***************************************************************************)
CalcFail(msg) == [head |-> NoCommit, target |-> NoCommit, err |-> msg]

calculateCommits(r, f, sha, branchEnv) ==
    IF branchEnv \notin r.branches
    THEN CalcFail("not able to retrieve the TARGET_BRANCH")
    ELSE IF "ResolveRevision" \in f
    THEN CalcFail("not able to retrieve ref from TARGET_BRANCH")
    ELSE IF "TargetCommitObject" \in f
    THEN CalcFail("not able to retrieve commit from TARGET_BRANCH")
    ELSE IF sha = NoSha /\ "Head" \in f
    THEN CalcFail("not able to retrieve ref from HEAD")
    ELSE LET headRefSha == IF sha = NoSha THEN r.head ELSE sha
         IN IF headRefSha \notin Commits(r)
            THEN CalcFail("not able to retrieve commit from HEAD")
            ELSE [head |-> headRefSha, target |-> r.target, err |-> Nil]

(***************************************************************************)
(* checkGitProvider (git.go:60-77).                                        *)
(***************************************************************************)
checkGitProvider(e) ==
    IF e.GITHUB_SHA # NoSha /\ e.GITHUB_BASE_REF # ""
    THEN [sha |-> e.GITHUB_SHA, baseRef |-> e.GITHUB_BASE_REF, provider |-> "Github"]
    ELSE IF e.CI_MERGE_REQUEST_SOURCE_BRANCH_SHA # NoSha
            /\ e.CI_MERGE_REQUEST_TARGET_BRANCH_NAME # ""
    THEN [sha |-> e.CI_MERGE_REQUEST_SOURCE_BRANCH_SHA,
          baseRef |-> e.CI_MERGE_REQUEST_TARGET_BRANCH_NAME, provider |-> "Gitlab"]
    ELSE [sha |-> NoSha, baseRef |-> e.TARGET_BRANCH, provider |-> ""]

(***************************************************************************)
(* contributeCommitters (git.go:136-179).  The record holds the locals of   *)
(* the function at its return; authorList and committerList are the orders  *)
(* in which mapToArray happened to range over the two maps.                 *)
(***************************************************************************)
NoWalk == [ran |-> FALSE, commits |-> <<>>, ancestor |-> NoCommit, visited |-> <<>>,
           authors |-> {}, committers |-> {}, attributes |-> <<>>, outError |-> Nil]

AuthorsOf(r, visited) == {r.aEmail[visited[i]] : i \in DOMAIN visited}

CommittersOf(r, visited) == {r.cEmail[visited[i]] : i \in DOMAIN visited}

(* Mutation of CommittersAttributes: committers are appended before authors. *)
CommittersAttributesSwapped(authorList, committerList) ==
    (IF Len(committerList) > 0 THEN <<KV(ScmCommitters, committerList)>> ELSE <<>>)
    \o (IF Len(authorList) > 0 THEN <<KV(ScmAuthors, authorList)>> ELSE <<>>)

mapToArray(m) == Orderings(m)

CommittersAttributes(authorList, committerList) ==
    (IF Len(authorList) > 0 THEN <<KV(ScmAuthors, authorList)>> ELSE <<>>)
    \o (IF Len(committerList) > 0 THEN <<KV(ScmCommitters, committerList)>> ELSE <<>>)

contributeCommitters(r, f, head, target, authorList, committerList) ==
    LET mbErr == IF "MergeBase" \in f THEN "history not traversable" ELSE Nil
        commits == IF mbErr = Nil THEN MergeBase(r, head, target) ELSE <<>>
    IN IF mbErr # Nil
       THEN [NoWalk EXCEPT !.ran = TRUE,
                           !.outError = Wrapf(mbErr, "not able to find a common ancestor")]
       ELSE IF Len(commits) = 0
       THEN [NoWalk EXCEPT !.ran = TRUE,
                           !.outError = Wrapf(mbErr, "not able to find a common ancestor")]
       ELSE LET ancestor == commits[1]
                logErr == IF "Log" \in f THEN "object not found" ELSE Nil
            IN IF logErr # Nil
               THEN [NoWalk EXCEPT !.ran = TRUE, !.commits = commits, !.ancestor = ancestor,
                                   !.outError = Wrapf(logErr, "not able to retrieve commits")]
               ELSE LET visited == Log(r, head, r.aWhen[ancestor])
                    IN [ran |-> TRUE, commits |-> commits, ancestor |-> ancestor,
                        visited |-> visited,
                        authors |-> AuthorsOf(r, visited),
                        committers |-> CommittersOf(r, visited),
                        attributes |-> CommittersAttributes(authorList, committerList),
                        outError |-> Nil]

(***************************************************************************)
(* The sets the ForEach callback of contributeCommitters ends with, used to *)
(* draw the iteration orders of mapToArray.                                 *)
(***************************************************************************)
WalkSets(r, f, head, target) ==
    contributeCommitters(r, f, head, target, <<>>, <<>>)

(***************************************************************************)
(* contributeFilesAndLines (git.go:185-221).                               *)
(***************************************************************************)
contributeFilesAndLines(r, f, head, target) ==
    IF "HeadTree" \in f
    THEN [attributes |-> <<>>, outError |-> Wrapf("tree not found", "not able to find a HEAD tree")]
    ELSE IF "TargetTree" \in f
    THEN [attributes |-> <<>>,
          outError |-> Wrapf("tree not found", "not able to find a TARGET_BRANCH tree")]
    ELSE IF "Patch" \in f
    THEN [attributes |-> <<>>, outError |-> Wrapf("diff failed", "not able to find the patch")]
    ELSE LET stats == PatchStats(r.tree[head], r.tree[target])
             additions == SumAddition(stats, 1)
             deletions == SumDeletion(stats, 1)
             changedFiles == ChangedFiles(stats)
         IN [attributes |-> <<KV(GitAdditions, additions),
                              KV(GitDeletions, deletions),
                              KV(GitModifiedFiles, Len(changedFiles))>>,
             outError |-> Nil]

(***************************************************************************)
(* Inputs: repositories, environments and failing library calls.           *)
(***************************************************************************)
Emails == {"ann@x", "bob@x"}
Times == 1..MaxTime

FaultPoints == {"PlainOpen", "Remote", "Head", "ResolveRevision", "TargetCommitObject",
                "MergeBase", "Log", "HeadTree", "TargetTree", "Patch"}

BranchNames == {"", "main", "dev"}

Tree0 == <<>>
Tree1 == "a.txt" :> <<"l1", "l2", "l3">>
Tree2 == "a.txt" :> <<"l1", "x2", "l3">>
Tree3 == ("a.txt" :> <<"l1", "x2", "l3">>) @@ ("b.txt" :> <<"m1">>)
TreePlan == <<Tree0, Tree1, Tree2, Tree3>>

TreeOfCommit(c) == TreePlan[((c - 1) % Len(TreePlan)) + 1]

(* How the generated commits were made: authored and committed at once by   *)
(* alternating authors through one committer, or rebased (authored one tick *)
(* before being committed) by one author through varying committers.        *)
Profiles ==
    {[lag |-> 0,
      a |-> <<"ann@x", "bob@x", "ann@x", "bob@x", "ann@x">>,
      c |-> <<"bob@x", "bob@x", "bob@x", "bob@x", "bob@x">>],
     [lag |-> 1,
      a |-> <<"ann@x", "ann@x", "ann@x", "ann@x", "ann@x">>,
      c |-> <<"ann@x", "bob@x", "bob@x", "ann@x", "bob@x">>]}

ParentLists(c) == {SetToSeq(S) : S \in SUBSET (1..(c - 1))}

Env(ghSha, ghBase, glSha, glBase, tb) ==
    [GITHUB_SHA |-> ghSha, GITHUB_BASE_REF |-> ghBase,
     CI_MERGE_REQUEST_SOURCE_BRANCH_SHA |-> glSha,
     CI_MERGE_REQUEST_TARGET_BRANCH_NAME |-> glBase,
     TARGET_BRANCH |-> tb]

(* The scenario of the specification: C1 (root) -> C2 (adds a.txt, 3 lines) *)
(* -> C3 (changes one line of a.txt); main points at C1, HEAD at C3.        *)
ScenarioRepo ==
    [n |-> 3, parents |-> <<(<<>>), <<1>>, <<2>>>>,
     cWhen |-> <<1, 2, 3>>, aWhen |-> <<1, 2, 3>>,
     aEmail |-> <<"root@x", "ann@x", "bob@x">>,
     cEmail |-> <<"root@x", "ann@x", "web@x">>,
     tree |-> <<Tree0, Tree1, Tree2>>,
     head |-> 3, headName |-> "refs/heads/feature", target |-> 1,
     branches |-> {"main"}, urls |-> <<"https://example/repo.git">>]


(* Two histories that share no commit: roots 1 and 2, commit 3 on top of 2. *)
UnrelatedRepo ==
    [ScenarioRepo EXCEPT !.parents = <<(<<>>), (<<>>), <<2>>>>, !.target = 1, !.head = 3]

ParentFamilies(n) ==
    {p \in [1..n -> UNION {ParentLists(c) : c \in 1..n}] : \A c \in 1..n : p[c] \in ParentLists(c)}

HistoryRepos ==
    {[n |-> MaxCommits, parents |-> p, cWhen |-> cw,
      aWhen |-> [c \in 1..MaxCommits |-> cw[c] - plan.lag],
      aEmail |-> [c \in 1..MaxCommits |-> plan.a[c]],
      cEmail |-> [c \in 1..MaxCommits |-> plan.c[c]],
      tree |-> [c \in 1..MaxCommits |-> TreeOfCommit(c)],
      head |-> h, headName |-> "refs/heads/feature", target |-> t,
      branches |-> {"main"}, urls |-> <<"https://example/repo.git">>] :
        p \in ParentFamilies(MaxCommits), cw \in [1..MaxCommits -> Times],
        plan \in Profiles, h \in 1..MaxCommits, t \in 1..MaxCommits}

SampleRepos ==
    {[ScenarioRepo EXCEPT !.urls = u, !.target = t] :
        u \in {<<>>, <<"https://example/repo.git">>}, t \in {1, 3}}
    \cup {UnrelatedRepo}

EnvFamily(shas) ==
    {Env(s, b, NoSha, "", "main") : s \in shas, b \in BranchNames}
    \cup {Env(NoSha, "", s, b, "dev") : s \in shas \ {NoSha}, b \in BranchNames \ {""}}
    \cup {Env(NoSha, "", NoSha, "", b) : b \in BranchNames}

FaultSets == {F \in SUBSET FaultPoints : Cardinality(F) <= MaxFaults}

Stages == {"open", "remote", "head", "calc", "committers", "files"}

InitPass ==
    /\ pc = "open"
    /\ headSha = NoSha
    /\ targetBranchEnv = ""
    /\ gitProvider = ""
    /\ gitAttributes = <<>>
    /\ headCommit = NoCommit
    /\ targetCommit = NoCommit
    /\ outcome = [s \in Stages |-> "notrun"]
    /\ walk = NoWalk
    /\ returned = <<>>

InitSamples ==
    /\ repo \in SampleRepos
    /\ env \in EnvFamily({NoSha, BogusSha(repo)} \cup Commits(repo))
    /\ faults \in FaultSets

InitHistories ==
    /\ repo \in HistoryRepos
    /\ env = Env(NoSha, "", NoSha, "", "main")
    /\ faults = {}

Init == (InitSamples \/ InitHistories) /\ InitPass

(* Mutation of Return: every failure hands back a fresh empty slice, as the   *)
(* open-repository failure does.                                            *)
ReturnEmptySlice(attrs) ==
    /\ returned' = <<>>
    /\ pc' = "done"

(***************************************************************************)
(* contributeAttributes (git.go:81-130), one action per stage.             *)
(***************************************************************************)
Return(attrs) ==
    /\ returned' = attrs
    /\ pc' = "done"

OpenLocalRepository ==
    /\ pc = "open"
    /\ IF "PlainOpen" \in faults
       THEN /\ outcome' = [outcome EXCEPT !["open"] = "err"]
            /\ Return(<<>>)
       ELSE /\ outcome' = [outcome EXCEPT !["open"] = "ok"]
            /\ pc' = "provider"
            /\ UNCHANGED returned
    /\ UNCHANGED <<inputs, headSha, targetBranchEnv, gitProvider, gitAttributes,
                   headCommit, targetCommit, walk>>

CheckGitProvider ==
    /\ pc = "provider"
    /\ LET p == checkGitProvider(env)
       IN /\ headSha' = p.sha
          /\ targetBranchEnv' = p.baseRef
          /\ gitProvider' = p.provider
          /\ gitAttributes' = <<KV(ScmType, "git")>>
                \o (IF p.provider # "" THEN <<KV(ScmProvider, p.provider)>> ELSE <<>>)
    /\ pc' = "remote"
    /\ UNCHANGED <<inputs, headCommit, targetCommit, outcome, walk, returned>>

(* Mutation of RepositoryHead: a failed HEAD lookup is tolerated when the CI *)
(* provider supplied the head hash.                                         *)
RepositoryHeadLenient ==
    /\ pc = "head"
    /\ IF "Head" \in faults /\ headSha = NoSha
       THEN /\ outcome' = [outcome EXCEPT !["head"] = "err"]
            /\ Return(gitAttributes)
            /\ UNCHANGED gitAttributes
       ELSE IF "Head" \in faults
       THEN /\ outcome' = [outcome EXCEPT !["head"] = "err"]
            /\ pc' = "calc"
            /\ UNCHANGED <<gitAttributes, returned>>
       ELSE /\ outcome' = [outcome EXCEPT !["head"] = "ok"]
            /\ gitAttributes' = Append(gitAttributes, KV(ScmBranch, repo.headName))
            /\ pc' = "calc"
            /\ UNCHANGED returned
    /\ UNCHANGED <<inputs, headSha, targetBranchEnv, gitProvider, headCommit, targetCommit, walk>>

RemoteOrigin ==
    /\ pc = "remote"
    /\ IF "Remote" \in faults
       THEN /\ outcome' = [outcome EXCEPT !["remote"] = "err"]
            /\ Return(gitAttributes)
            /\ UNCHANGED gitAttributes
       ELSE /\ outcome' = [outcome EXCEPT !["remote"] = "ok"]
            /\ gitAttributes' = Append(gitAttributes, KV(ScmRepository, repo.urls))
            /\ pc' = "head"
            /\ UNCHANGED returned
    /\ UNCHANGED <<inputs, headSha, targetBranchEnv, gitProvider, headCommit, targetCommit, walk>>

RepositoryHead ==
    /\ pc = "head"
    /\ IF "Head" \in faults
       THEN /\ outcome' = [outcome EXCEPT !["head"] = "err"]
            /\ Return(gitAttributes)
            /\ UNCHANGED gitAttributes
       ELSE /\ outcome' = [outcome EXCEPT !["head"] = "ok"]
            /\ gitAttributes' = Append(gitAttributes, KV(ScmBranch, repo.headName))
            /\ pc' = "calc"
            /\ UNCHANGED returned
    /\ UNCHANGED <<inputs, headSha, targetBranchEnv, gitProvider, headCommit, targetCommit, walk>>

(* Mutation of ContributeCommitters: a failed contribution returns instead   *)
(* of continuing with the next one.                                         *)
ContributeCommittersAbort ==
    /\ pc = "committers"
    /\ LET sets == WalkSets(repo, faults, headCommit, targetCommit)
       IN \E authorList \in mapToArray(sets.authors), committerList \in mapToArray(sets.committers) :
            LET res == contributeCommitters(repo, faults, headCommit, targetCommit,
                                            authorList, committerList)
            IN /\ walk' = res
               /\ IF res.outError # Nil
                  THEN /\ outcome' = [outcome EXCEPT !["committers"] = "err"]
                       /\ UNCHANGED gitAttributes
                       /\ Return(gitAttributes)
                  ELSE /\ outcome' = [outcome EXCEPT !["committers"] = "ok"]
                       /\ gitAttributes' = gitAttributes \o res.attributes
                       /\ pc' = "files"
                       /\ UNCHANGED returned
    /\ UNCHANGED <<inputs, headSha, targetBranchEnv, gitProvider, headCommit, targetCommit>>

CalculateCommits ==
    /\ pc = "calc"
    /\ LET res == calculateCommits(repo, faults, headSha, targetBranchEnv)
       IN IF res.err # Nil
          THEN /\ outcome' = [outcome EXCEPT !["calc"] = "err"]
               /\ Return(gitAttributes)
               /\ UNCHANGED <<headCommit, targetCommit>>
          ELSE /\ outcome' = [outcome EXCEPT !["calc"] = "ok"]
               /\ headCommit' = res.head
               /\ targetCommit' = res.target
               /\ pc' = "committers"
               /\ UNCHANGED returned
    /\ UNCHANGED <<inputs, headSha, targetBranchEnv, gitProvider, gitAttributes, walk>>

(* First iteration of the loop over contributions (git.go:119-127). *)
ContributeCommitters ==
    /\ pc = "committers"
    /\ LET sets == WalkSets(repo, faults, headCommit, targetCommit)
       IN \E authorList \in mapToArray(sets.authors), committerList \in mapToArray(sets.committers) :
            LET res == contributeCommitters(repo, faults, headCommit, targetCommit,
                                            authorList, committerList)
            IN /\ walk' = res
               /\ IF res.outError # Nil
                  THEN /\ outcome' = [outcome EXCEPT !["committers"] = "err"]
                       /\ UNCHANGED gitAttributes
                  ELSE /\ outcome' = [outcome EXCEPT !["committers"] = "ok"]
                       /\ gitAttributes' = gitAttributes \o res.attributes
    /\ pc' = "files"
    /\ UNCHANGED <<inputs, headSha, targetBranchEnv, gitProvider, headCommit, targetCommit,
                   returned>>

(* Second iteration of the loop, then the final return (git.go:129). *)
ContributeFilesAndLines ==
    /\ pc = "files"
    /\ LET res == contributeFilesAndLines(repo, faults, headCommit, targetCommit)
       IN IF res.outError # Nil
          THEN /\ outcome' = [outcome EXCEPT !["files"] = "err"]
               /\ UNCHANGED gitAttributes
               /\ Return(gitAttributes)
          ELSE /\ outcome' = [outcome EXCEPT !["files"] = "ok"]
               /\ gitAttributes' = gitAttributes \o res.attributes
               /\ Return(gitAttributes \o res.attributes)
    /\ UNCHANGED <<inputs, headSha, targetBranchEnv, gitProvider, headCommit, targetCommit, walk>>

Next ==
    \/ OpenLocalRepository
    \/ CheckGitProvider
    \/ RemoteOrigin
    \/ RepositoryHead
    \/ CalculateCommits
    \/ ContributeCommitters
    \/ ContributeFilesAndLines

Spec == Init /\ [][Next]_vars

TypeOK ==
    /\ pc \in {"open", "provider", "remote", "head", "calc", "committers", "files", "done"}
    /\ outcome \in [Stages -> {"notrun", "ok", "err"}]


(***************************************************************************)
(* Vocabulary of the properties.                                           *)
(***************************************************************************)
Keys(bag) == {bag[i].key : i \in DOMAIN bag}

ValueOf(bag, k) == bag[CHOOSE i \in DOMAIN bag : bag[i].key = k].val

KeyOrder == <<ScmType, ScmProvider, ScmRepository, ScmBranch, ScmAuthors, ScmCommitters,
              GitAdditions, GitDeletions, GitModifiedFiles>>

KeyRank(k) == CHOOSE i \in DOMAIN KeyOrder : KeyOrder[i] = k

CommitterKeys == {ScmAuthors, ScmCommitters}
DiffstatKeys == {GitAdditions, GitDeletions, GitModifiedFiles}
ListKeys == {ScmRepository, ScmAuthors, ScmCommitters}

Done == pc = "done"

StageFailsNow(s) == outcome[s] = "notrun" /\ outcome'[s] = "err"

(* The history of HEAD is a chain and the target lies on it. *)
LinearWithTargetBehind ==
    /\ \A c \in Reach(repo, headCommit) : Len(repo.parents[c]) <= 1
    /\ targetCommit \in Reach(repo, headCommit)

(* contributeCommitters ran and none of its library calls returned an error. *)
WalkRan == walk.ran /\ faults \cap {"MergeBase", "Log"} = {}

SinceTarget == Reach(repo, headCommit) \ Reach(repo, targetCommit)

(***************************************************************************)
(* C1: contributeAttributes never fails and its bag is append-only: every   *)
(* step leaves the old bag as a prefix of the new one; a stage that fails   *)
(* leaves the bag as it was and the pass either returns exactly that bag or *)
(* goes on to the last stage, which always returns; whatever is returned    *)
(* extends every earlier value of the bag.                                  *)
(***************************************************************************)
C1_AppendOnlyNeverFails ==
    [][/\ IsPrefix(gitAttributes, gitAttributes')
       /\ \A s \in Stages : StageFailsNow(s) =>
             /\ gitAttributes' = gitAttributes
             /\ pc' \in {"done", "files"}
             /\ (pc' = "done" => returned' = gitAttributes)
       /\ (pc = "files" => pc' = "done")
       /\ (pc' = "done" => IsPrefix(gitAttributes, returned') /\ returned' = gitAttributes')]_vars

C1_Witness ==
    /\ Done
    /\ outcome["calc"] = "err"
    /\ Len(returned) = 4

(***************************************************************************)
(* C2: once calculateCommits succeeded, whenever contributeFilesAndLines    *)
(* succeeds on the resolved commits the three diffstat keys are in the      *)
(* returned bag, whatever contributeCommitters did.                         *)
(***************************************************************************)
C2_StagesIndependent ==
    (Done /\ outcome["calc"] = "ok"
          /\ contributeFilesAndLines(repo, faults, headCommit, targetCommit).outError = Nil)
    => DiffstatKeys \subseteq Keys(returned)

C2_Witness ==
    /\ Done
    /\ outcome["committers"] = "err"
    /\ outcome["files"] = "ok"
    /\ DiffstatKeys \subseteq Keys(returned)

(***************************************************************************)
(* C3: when head and target share no commit and merge-base discovery does   *)
(* not itself fail, contributeCommitters ends with a non-nil error and      *)
(* contributes no scm-authors or scm-committers attribute.                  *)
(***************************************************************************)
C3_NoCommonAncestorIsFailure ==
    (walk.ran /\ "MergeBase" \notin faults
              /\ Reach(repo, headCommit) \cap Reach(repo, targetCommit) = {})
    => /\ walk.outError # Nil
       /\ outcome["committers"] = "err"
       /\ Keys(gitAttributes) \cap CommitterKeys = {}

(***************************************************************************)
(* C4: on a linear history with the target behind (or at) HEAD the author   *)
(* and committer sets are exactly the emails of the commits after the       *)
(* target up to HEAD; with HEAD at the target neither key is emitted.       *)
(***************************************************************************)
C4_RangeExcludesTarget ==
    (WalkRan /\ LinearWithTargetBehind)
    => /\ walk.authors = {repo.aEmail[c] : c \in SinceTarget}
       /\ walk.committers = {repo.cEmail[c] : c \in SinceTarget}
       /\ (headCommit = targetCommit => Keys(gitAttributes) \cap CommitterKeys = {})

(***************************************************************************)
(* C5: in the scenario C1 -> C2 (adds a.txt, 3 lines) -> C3 (+1/-1) with    *)
(* the target at C1 and HEAD at C3, contributeFilesAndLines emits           *)
(* git-modified-files=1, git-additions=4, git-deletions=1.                  *)
(***************************************************************************)
C5_ScenarioDiffstat ==
    (Done /\ outcome["files"] = "ok" /\ repo.parents = ScenarioRepo.parents
          /\ repo.tree = ScenarioRepo.tree /\ headCommit = 3 /\ targetCommit = 1)
    => /\ ValueOf(returned, GitModifiedFiles) = 1
       /\ ValueOf(returned, GitAdditions) = 4
       /\ ValueOf(returned, GitDeletions) = 1

(***************************************************************************)
(* C6: in a returned bag a key is present only if its stage succeeded, and  *)
(* every list-valued key that is present carries a non-empty list.          *)
(***************************************************************************)
C6_KeysOnlyFromSuccessNonEmpty ==
    Done =>
       /\ ScmRepository \in Keys(returned) => outcome["remote"] = "ok"
       /\ ScmBranch \in Keys(returned) => outcome["head"] = "ok"
       /\ Keys(returned) \cap CommitterKeys # {} => outcome["committers"] = "ok"
       /\ Keys(returned) \cap DiffstatKeys # {} => outcome["files"] = "ok"
       /\ \A i \in DOMAIN returned :
             returned[i].key \in ListKeys => Len(returned[i].val) > 0

(***************************************************************************)
(* C7: on a linear history with the target behind (or at) HEAD,             *)
(* contributeCommitters never takes the no-common-ancestor path and the     *)
(* ancestor it selects, the first merge base, is the target commit.         *)
(***************************************************************************)
C7_LinearAncestorIsTarget ==
    (walk.ran /\ "MergeBase" \notin faults /\ LinearWithTargetBehind)
    => /\ Len(walk.commits) > 0
       /\ walk.commits[1] = targetCommit
       /\ walk.ancestor = targetCommit

C7_Witness ==
    /\ walk.ran /\ "MergeBase" \notin faults /\ LinearWithTargetBehind
    /\ headCommit # targetCommit
    /\ repo.cWhen[targetCommit] > repo.cWhen[headCommit]
    /\ walk.ancestor = targetCommit

(***************************************************************************)
(* C8: the keys of the bag always appear in one fixed relative order        *)
(* (scm-type, scm-provider, scm-repository, scm-branch, scm-authors,        *)
(* scm-committers, git-additions, git-deletions, git-modified-files), so    *)
(* committers attributes precede diffstat attributes and no key repeats.    *)
(***************************************************************************)
InKeyOrder(bag) ==
    /\ Keys(bag) \subseteq Range(KeyOrder)
    /\ \A i, j \in DOMAIN bag : i < j => KeyRank(bag[i].key) < KeyRank(bag[j].key)

C8_FixedKeyOrder == InKeyOrder(gitAttributes) /\ InKeyOrder(returned)

C8_Witness == Done /\ Keys(returned) = Range(KeyOrder)

(***************************************************************************)
(* C9: on every commit DAG the history walk visits each commit at most      *)
(* once and visits exactly the commits reachable from headCommit whose      *)
(* (committer) timestamp is at or after the selected ancestor's author      *)
(* timestamp; the author and committer sets are the emails of exactly       *)
(* those commits and every emitted list holds each distinct email once.     *)
(***************************************************************************)
InTimeBound ==
    {c \in Reach(repo, headCommit) : repo.cWhen[c] >= repo.aWhen[walk.ancestor]}

C9_WalkVisitsTimeBound ==
    (WalkRan /\ walk.ancestor # NoCommit)
    => /\ NoDup(walk.visited)
       /\ Range(walk.visited) = InTimeBound
       /\ walk.authors = {repo.aEmail[c] : c \in InTimeBound}
       /\ walk.committers = {repo.cEmail[c] : c \in InTimeBound}
       /\ \A i \in DOMAIN walk.attributes :
             /\ NoDup(walk.attributes[i].val)
             /\ Range(walk.attributes[i].val) =
                   (IF walk.attributes[i].key = ScmAuthors THEN walk.authors
                    ELSE walk.committers)

C9_Witness ==
    /\ WalkRan /\ walk.ancestor # NoCommit
    /\ \E c \in Reach(repo, headCommit) : Len(repo.parents[c]) > 1
    /\ Reach(repo, headCommit) \ Range(walk.visited) # {}
    /\ Cardinality(walk.authors) > 1
    /\ Len(walk.visited) > Cardinality(walk.committers)

(***************************************************************************)
(* C10: if any committers or diffstat key is in the bag then scm-type,      *)
(* scm-repository and scm-branch are in it too; when the origin lookup or   *)
(* the HEAD lookup fails, even with an explicit head hash from the CI       *)
(* provider, neither contribution runs and none of their keys appears.      *)
(***************************************************************************)
LaterKeysNeedEarlier(bag) ==
    Keys(bag) \cap (CommitterKeys \cup DiffstatKeys) # {}
    => {ScmType, ScmRepository, ScmBranch} \subseteq Keys(bag)

C10_LaterKeysDependOnLookups ==
    /\ LaterKeysNeedEarlier(gitAttributes)
    /\ LaterKeysNeedEarlier(returned)
    /\ (outcome["remote"] = "err" \/ outcome["head"] = "err" \/ "Head" \in faults)
       => /\ outcome["committers"] = "notrun"
          /\ outcome["files"] = "notrun"
          /\ Keys(gitAttributes) \cap (CommitterKeys \cup DiffstatKeys) = {}
          /\ Keys(returned) \cap (CommitterKeys \cup DiffstatKeys) = {}

C10_Witness ==
    /\ Done
    /\ headSha \in Commits(repo)
    /\ outcome["remote"] = "ok"
    /\ outcome["head"] = "err"
    /\ calculateCommits(repo, faults \ {"Head"}, headSha, targetBranchEnv).err = Nil
    /\ Keys(returned) \cap (CommitterKeys \cup DiffstatKeys) = {}

====
